---- MODULE Spec2Model ----
(***************************************************************************)
(* A state-machine model of src/app.py, a Streamlit dashboard script.      *)
(* The script is re-executed from top to bottom on every widget            *)
(* interaction; an action of this model is one such execution together     *)
(* with the interaction that caused it.                                    *)
(*                                                                         *)
(* Data model.  A text cell of a DataFrame is a sequence of one-character  *)
(* strings; the missing value (NaN) of a text column is the one-element    *)
(* sequence NaN, which no text equals.  A numeric cell is a record         *)
(* [null, v]; a datetime cell is a record [null, year, month].  Amounts    *)
(* are whole numbers and a mean is an exact fraction [num, den].           *)
(***************************************************************************)
EXTENDS Integers, Sequences, FiniteSets, TLC

VARIABLES
    csv,                    \* listings.csv as returned by pd.read_csv
    lbcsv,                  \* open-llm-leaderboards.csv as returned by pd.read_csv
    status,                 \* "start", "ok", "listings_error", "lb_error"
    top_n,                  \* value of the sidebar slider
    top_neighborhoods,      \* options of the neighbourhood multiselect
    selected_neighborhoods, \* value of the neighbourhood multiselect
    metric,                 \* value of the metric selectbox
    room_types,             \* options of the room-type multiselect
    selected_room_types,    \* value of the room-type multiselect
    df,                     \* cleaned listings with the derived columns
    df_filtered,
    agg_col,
    df_grouped,
    df_bubble,
    df_price_plot,
    strip_data,             \* the data of strip_chart
    scatter_sel,            \* selection store of "highlight" in the scatter view
    strip_sel,              \* selection store of "highlight" in the strip view
    lb,                     \* cleaned leaderboard rows
    grouped,
    layout_df,
    monthly

vars == <<csv, lbcsv, status, top_n, top_neighborhoods, selected_neighborhoods,
          metric, room_types, selected_room_types, df, df_filtered, agg_col,
          df_grouped, df_bubble, df_price_plot, strip_data, scatter_sel,
          strip_sel, lb, grouped, layout_df, monthly>>

-----------------------------------------------------------------------------
(* Cells *)

NaN == <<"NaN">>
EmptyText == <<>>
NaNF == [null |-> TRUE, v |-> 0]
Num(n) == [null |-> FALSE, v |-> n]
NaT == [null |-> TRUE, year |-> 0, month |-> 0]
Date(y, m) == [null |-> FALSE, year |-> y, month |-> m]

Digits == {"0", "1", "2", "3", "4", "5", "6", "7", "8", "9"}

DigitVal(c) ==
    CASE c = "0" -> 0 [] c = "1" -> 1 [] c = "2" -> 2 [] c = "3" -> 3
      [] c = "4" -> 4 [] c = "5" -> 5 [] c = "6" -> 6 [] c = "7" -> 7
      [] c = "8" -> 8 [] c = "9" -> 9

IsNumeral(s) == Len(s) > 0 /\ \A i \in 1..Len(s) : s[i] \in Digits

RECURSIVE NumeralVal(_)
NumeralVal(s) ==
    IF Len(s) = 0 THEN 0
    ELSE 10 * NumeralVal(SubSeq(s, 1, Len(s) - 1)) + DigitVal(s[Len(s)])

\* Series.replace('[\$,]', '', regex=True): every "$" and "," is removed.
StripDollarComma(s) == SelectSeq(s, LAMBDA c : c \notin {"$", ","})

\* astype(float) / astype(int) raise ValueError on text that is no number.
CanAsNumber(s) == IsNumeral(s)
AsNumber(s) == Num(NumeralVal(s))

\* Faulty variant: text that is no number becomes 0 instead of NaN
ToNumericZero(s) == IF IsNumeral(s) THEN Num(NumeralVal(s)) ELSE Num(0)

\* pd.to_numeric(errors='coerce'): text that is no number becomes NaN.
ToNumericCoerce(s) == IF IsNumeral(s) THEN Num(NumeralVal(s)) ELSE NaNF

\* pd.to_datetime(errors='coerce') on "YYYY-MM" text: anything else is NaT.
IsDateText(s) ==
    /\ Len(s) = 7
    /\ s[5] = "-"
    /\ \A i \in {1, 2, 3, 4, 6, 7} : s[i] \in Digits
    /\ NumeralVal(SubSeq(s, 6, 7)) \in 1..12

ToDatetimeCoerce(s) ==
    IF IsDateText(s)
    THEN Date(NumeralVal(SubSeq(s, 1, 4)), NumeralVal(SubSeq(s, 6, 7)))
    ELSE NaT

-----------------------------------------------------------------------------
(* Sequence helpers standing for DataFrame row operations *)

Range(s) == {s[i] : i \in 1..Len(s)}

RECURSIVE SumSeq(_)
SumSeq(s) == IF Len(s) = 0 THEN 0 ELSE s[1] + SumSeq(Tail(s))

\* The values of s in order of first appearance (Series.unique()).
RECURSIVE Unique(_)
Unique(s) ==
    IF Len(s) = 0 THEN <<>>
    ELSE LET u == Unique(SubSeq(s, 1, Len(s) - 1))
         IN IF s[Len(s)] \in Range(u) THEN u ELSE Append(u, s[Len(s)])

Column(rows, f) == [i \in 1..Len(rows) |-> rows[i][f]]

-----------------------------------------------------------------------------
(* Load and clean data, lines 14-28 *)

TextColumns == {"host_neighbourhood", "price", "room_type", "accommodates",
                "bathrooms", "beds", "host_since", "host_is_superhost"}
NumericColumns == {"availability_365", "review_scores_rating"}

\* DataFrame.dropna() on the frame as read: a row with any missing cell goes.
RawHasNull(r) ==
    \/ \E c \in TextColumns : r[c] = NaN
    \/ \E c \in NumericColumns : r[c].null

DropNaRaw(rows) == SelectSeq(rows, LAMBDA r : ~RawHasNull(r))

DropEmptyNeighbourhood(rows) ==
    SelectSeq(rows, LAMBDA r : r.host_neighbourhood # EmptyText)

\* Lines 19-20 raise when a remaining price or accommodates is no number.
ConvertRaises(rows) ==
    \E i \in 1..Len(rows) :
        \/ ~CanAsNumber(StripDollarComma(rows[i].price))
        \/ ~CanAsNumber(rows[i].accommodates)

ConvertRow(r) ==
    [r EXCEPT !.price = AsNumber(StripDollarComma(r.price)),
              !.accommodates = AsNumber(r.accommodates),
              !.beds = ToNumericCoerce(r.beds),
              !.bathrooms = ToNumericCoerce(r.bathrooms),
              !.host_since = ToDatetimeCoerce(r.host_since)]

ConvertColumns(rows) == [i \in 1..Len(rows) |-> ConvertRow(rows[i])]

ConvertedHasNull(r) ==
    \/ \E c \in {"price", "accommodates", "beds", "bathrooms", "host_since",
                 "availability_365", "review_scores_rating"} : r[c].null
    \/ \E c \in {"host_neighbourhood", "room_type", "host_is_superhost"} : r[c] = NaN

\* Faulty variant: the second dropna left out
DropNaSkipped(rows) == rows

DropNaConverted(rows) == SelectSeq(rows, LAMBDA r : ~ConvertedHasNull(r))

\* Faulty variant: the sum in place of the product
MulAsSum(a, b) == IF a.null \/ b.null THEN NaNF ELSE Num(a.v + b.v)

\* Arithmetic on a missing operand yields a missing result.
Mul(a, b) == IF a.null \/ b.null THEN NaNF ELSE Num(a.v * b.v)
YearOf(d) == IF d.null THEN NaNF ELSE Num(d.year)

AddDerived(rows) ==
    [i \in 1..Len(rows) |->
        [idx |-> rows[i].idx,
         host_neighbourhood |-> rows[i].host_neighbourhood,
         price |-> rows[i].price,
         availability_365 |-> rows[i].availability_365,
         room_type |-> rows[i].room_type,
         accommodates |-> rows[i].accommodates,
         bathrooms |-> rows[i].bathrooms,
         beds |-> rows[i].beds,
         host_since |-> rows[i].host_since,
         review_scores_rating |-> rows[i].review_scores_rating,
         host_is_superhost |-> rows[i].host_is_superhost,
         estimated_revenue_365d |-> Mul(rows[i].price, rows[i].availability_365),
         host_year |-> YearOf(rows[i].host_since)]]

Selected(rows) == DropEmptyNeighbourhood(DropNaRaw(rows))
ListingsRaises(rows) == ConvertRaises(Selected(rows))
CleanListings(rows) == AddDerived(DropNaConverted(ConvertColumns(Selected(rows))))

-----------------------------------------------------------------------------
(* Text order, used where pandas sorts group keys *)

Alphabet == <<"$", ",", "-", "0", "1", "2", "3", "4", "5", "6", "7", "8", "9",
              "A", "B", "C", "D", "E", "F", "G", "H", "N", "P", "S", "a", "f",
              "t", "x">>

CharCode(c) == CHOOSE i \in 1..Len(Alphabet) : Alphabet[i] = c

RECURSIVE TextLess(_, _)
TextLess(a, b) ==
    IF Len(b) = 0 THEN FALSE
    ELSE IF Len(a) = 0 THEN TRUE
    ELSE IF a[1] = b[1] THEN TextLess(Tail(a), Tail(b))
    ELSE CharCode(a[1]) < CharCode(b[1])

\* The texts of S in ascending order.
RECURSIVE SortedTexts(_)
SortedTexts(S) ==
    IF S = {} THEN <<>>
    ELSE LET m == CHOOSE x \in S : \A y \in S \ {x} : TextLess(x, y)
         IN <<m>> \o SortedTexts(S \ {m})

-----------------------------------------------------------------------------
(* Sidebar filters, lines 35-46 *)

MinTopN == 5
MaxTopN == 100
DefaultTopN == 30

CountOf(col, k) == Cardinality({i \in 1..Len(col) : col[i] = k})

\* Stable insertion of x behind every entry whose count is at least x's.
RECURSIVE InsertByCount(_, _)
InsertByCount(s, x) ==
    IF Len(s) = 0 THEN <<x>>
    ELSE IF s[1].count >= x.count THEN <<s[1]>> \o InsertByCount(Tail(s), x)
    ELSE <<x>> \o s

RECURSIVE SortByCount(_)
SortByCount(s) ==
    IF Len(s) = 0 THEN <<>>
    ELSE InsertByCount(SortByCount(SubSeq(s, 1, Len(s) - 1)), s[Len(s)])

\* Faulty variant: the counts in order of first appearance, not sorted
ValueCountsUnsorted(col) ==
    LET u == Unique(col)
    IN [i \in 1..Len(u) |-> [key |-> u[i], count |-> CountOf(col, u[i])]]

\* Series.value_counts(): one entry per value, most frequent first, equal
\* counts in order of first appearance.
ValueCounts(col) ==
    LET u == Unique(col)
    IN SortByCount([i \in 1..Len(u) |-> [key |-> u[i], count |-> CountOf(col, u[i])]])

\* Series.nlargest(n): the first n entries of the descending order.
NLargest(vc, n) == SubSeq(vc, 1, IF n < Len(vc) THEN n ELSE Len(vc))

TopNeighborhoods(d, n) ==
    LET top == NLargest(ValueCounts(Column(d, "host_neighbourhood")), n)
    IN [i \in 1..Len(top) |-> top[i].key]

\* Faulty variant: the complement of the filter
IsNotIn(rows, col, values) == SelectSeq(rows, LAMBDA r : r[col] \notin values)

\* df[df[col].isin(values)]
IsIn(rows, col, values) == SelectSeq(rows, LAMBDA r : r[col] \in values)

-----------------------------------------------------------------------------
(* Metric selection and aggregation, lines 50-76 *)

Metrics == {"Average Revenue", "Total Revenue", "Average Price", "Total Listings"}
DefaultMetric == "Average Revenue"

Frac(n, d) == [num |-> n, den |-> d]

\* The non-missing values of a numeric column.
Values(rows, col) ==
    LET present == SelectSeq(rows, LAMBDA r : ~r[col].null)
    IN [i \in 1..Len(present) |-> present[i][col].v]

MeanOf(rows, col) == Frac(SumSeq(Values(rows, col)), Len(Values(rows, col)))
SumOf(rows, col) == Frac(SumSeq(Values(rows, col)), 1)
SizeOf(rows) == Frac(Len(rows), 1)

GroupRows(rows, key) == SelectSeq(rows, LAMBDA r : r.host_neighbourhood = key)

\* groupby('host_neighbourhood'): one group per key present, keys ascending.
GroupKeys(rows) == SortedTexts(Range(Column(rows, "host_neighbourhood")))

AggCol(m) ==
    CASE m = "Average Revenue" -> "avg_estimated_revenue"
      [] m = "Total Revenue" -> "total_estimated_revenue"
      [] m = "Average Price" -> "avg_price"
      [] m = "Total Listings" -> "total_listings"

\* Faulty variant: the branch of 'Total Revenue' averaging instead of summing
AggregateMeanForTotal(m, g) ==
    CASE m = "Average Revenue" -> MeanOf(g, "estimated_revenue_365d")
      [] m = "Total Revenue" -> MeanOf(g, "estimated_revenue_365d")
      [] m = "Average Price" -> MeanOf(g, "price")
      [] m = "Total Listings" -> SizeOf(g)

Aggregate(m, g) ==
    CASE m = "Average Revenue" -> MeanOf(g, "estimated_revenue_365d")
      [] m = "Total Revenue" -> SumOf(g, "estimated_revenue_365d")
      [] m = "Average Price" -> MeanOf(g, "price")
      [] m = "Total Listings" -> SizeOf(g)

DfGrouped(rows, m) ==
    LET keys == GroupKeys(rows)
    IN [i \in 1..Len(keys) |->
           [host_neighbourhood |-> keys[i],
            value |-> Aggregate(m, GroupRows(rows, keys[i]))]]

-----------------------------------------------------------------------------
(* Chart data, lines 95-97, 116, 145 *)

PriceCap == 1000

RoomTypes(rows) == Unique(Column(rows, "room_type"))
DfBubble(rows, rsel) == IsIn(rows, "room_type", rsel)
\* Faulty variant: the bound included
DfPricePlotInclusive(rows) ==
    LET cheap == SelectSeq(rows, LAMBDA r : ~r.price.null /\ r.price.v <= PriceCap)
    IN [i \in 1..Len(cheap) |->
           [idx |-> cheap[i].idx,
            host_neighbourhood |-> cheap[i].host_neighbourhood,
            price |-> cheap[i].price,
            availability_365 |-> cheap[i].availability_365]]

\* A comparison with a missing price is false.
DfPricePlot(rows) ==
    LET cheap == SelectSeq(rows, LAMBDA r : ~r.price.null /\ r.price.v < PriceCap)
    IN [i \in 1..Len(cheap) |->
           [idx |-> cheap[i].idx,
            host_neighbourhood |-> cheap[i].host_neighbourhood,
            price |-> cheap[i].price,
            availability_365 |-> cheap[i].availability_365]]
StripData(rows) == rows

-----------------------------------------------------------------------------
(* Linked selection, lines 119-124, 131, 153 *)

\* alt.condition(highlight, 1, 0.075): an empty selection store passes every
\* point; otherwise a point passes when its host_neighbourhood is stored.
Opaque(sel, h) == sel = {} \/ h \in sel

\* selection_point(toggle=True, on="click"): a plain click replaces the store
\* by the clicked value, a shift-click toggles the clicked value in the store.
ClickOn(sel, h, shift) ==
    IF shift THEN (IF h \in sel THEN sel \ {h} ELSE sel \cup {h}) ELSE {h}

-----------------------------------------------------------------------------
(* Leaderboard cleaning, lines 175-177 *)

ConvertLbRow(r) ==
    [r EXCEPT !.co2 = ToNumericCoerce(r.co2),
              !.upload_date = ToDatetimeCoerce(r.upload_date)]

LbHasNull(r) == r.co2.null \/ r.upload_date.null \/ r.Type = NaN

CleanLeaderboard(rows) ==
    SelectSeq([i \in 1..Len(rows) |-> ConvertLbRow(rows[i])],
              LAMBDA r : ~LbHasNull(r))

-----------------------------------------------------------------------------
(* Packed circles, lines 180-214 *)

FracLess(a, b) == a.num * b.den < b.num * a.den
FracLeq(a, b) == a.num * b.den <= b.num * a.den
FracSquare(a) == Frac(a.num * a.num, a.den * a.den)
FracScale(k, a) == Frac(k * a.num, a.den)

TypeRows(rows, t) == SelectSeq(rows, LAMBDA r : r.Type = t)
Co2Values(rows) == [i \in 1..Len(rows) |-> rows[i].co2.v]

\* df.groupby("Type", as_index=False)["CO2 cost (kg)"].mean(): Types ascending.
Grouped(rows) ==
    LET keys == SortedTexts(Range(Column(rows, "Type")))
    IN [i \in 1..Len(keys) |->
           [Type |-> keys[i],
            co2 |-> Frac(SumSeq(Co2Values(TypeRows(rows, keys[i]))),
                         Len(TypeRows(rows, keys[i])))]]

\* Stable insertion of a circle into a list ascending in r.
RECURSIVE InsertByRadius(_, _)
InsertByRadius(s, c) ==
    IF Len(s) = 0 THEN <<c>>
    ELSE IF FracLeq(s[1].r, c.r) THEN <<s[1]>> \o InsertByRadius(Tail(s), c)
    ELSE <<c>> \o s

RECURSIVE SortByRadius(_)
SortByRadius(s) ==
    IF Len(s) = 0 THEN <<>>
    ELSE InsertByRadius(SortByRadius(SubSeq(s, 1, Len(s) - 1)), s[Len(s)])

\* circlify.circlify(data): one circle per datum, its area proportional to
\* the datum; the list returned is sorted(circles), and circles compare by
\* (level, r), so it is ascending in r whatever the order of data.  The
\* radius is kept as the datum itself, a strictly increasing stand-in for
\* the packed radius (positions are not modelled).
Circlify(data) ==
    SortByRadius([i \in 1..Len(data) |-> [r |-> data[i], datum |-> data[i]]])

LayoutScale == 500

\* np.round(x, 1) of the exact fraction, in tenths, ties to even.
Round1(a) ==
    LET q == (10 * a.num) \div a.den
        rem == (10 * a.num) % a.den
    IN IF 2 * rem < a.den THEN q
       ELSE IF 2 * rem > a.den THEN q + 1
       ELSE IF q % 2 = 0 THEN q ELSE q + 1

\* Lines 202-214: circle i is given Type and mean of row i of grouped.  Size
\* is r squared, in units of pi.
LayoutDf(g) ==
    LET circles == Circlify(Column(g, "co2"))
    IN [i \in 1..Len(circles) |->
           [r |-> FracScale(LayoutScale, circles[i].r),
            Type |-> g[i].Type,
            co2 |-> g[i].co2,
            Size |-> FracSquare(FracScale(LayoutScale, circles[i].r)),
            co2_rounded |-> Round1(g[i].co2)]]

-----------------------------------------------------------------------------
(* Area chart data, lines 247-249 *)

\* dt.to_period("M").dt.to_timestamp(): the month, numbered from year 0.
MonthOf(d) == 12 * d.year + (d.month - 1)

RECURSIVE SortedInts(_)
SortedInts(S) ==
    IF S = {} THEN <<>>
    ELSE LET m == CHOOSE x \in S : \A y \in S : x <= y
         IN <<m>> \o SortedInts(S \ {m})

MonthTypeRows(rows, m, t) ==
    SelectSeq(rows, LAMBDA r : MonthOf(r.upload_date) = m /\ r.Type = t)

\* The (Month, Type) pairs present, by Month and then Type.
RECURSIVE MonthlyKeys(_, _)
MonthlyKeys(rows, months) ==
    IF Len(months) = 0 THEN <<>>
    ELSE LET here == SelectSeq(rows, LAMBDA r : MonthOf(r.upload_date) = months[1])
             types == SortedTexts(Range(Column(here, "Type")))
         IN [i \in 1..Len(types) |-> [Month |-> months[1], Type |-> types[i]]]
            \o MonthlyKeys(rows, Tail(months))

\* df.groupby(["Month", "Type"])["CO2 cost (kg)"].sum().reset_index()
MonthlySums(rows) ==
    LET months == SortedInts({MonthOf(rows[i].upload_date) : i \in 1..Len(rows)})
        keys == MonthlyKeys(rows, months)
    IN [i \in 1..Len(keys) |->
           [Month |-> keys[i].Month,
            Type |-> keys[i].Type,
            co2 |-> SumSeq(Co2Values(MonthTypeRows(rows, keys[i].Month, keys[i].Type)))]]

\* sort_values("Month").groupby("Type").cumsum(): the running total of the
\* rows of the same Type that come no later in Month order; the result is
\* aligned back on the index of monthly.
\* Faulty variant: the running total over every Type
CumSumAllTypes(m, i) == SumSeq(Column(SubSeq(m, 1, i), "co2"))

CumSum(m, i) ==
    SumSeq(Column(SelectSeq(SubSeq(m, 1, i), LAMBDA r : r.Type = m[i].Type), "co2"))

Monthly(rows) ==
    LET m == MonthlySums(rows)
    IN [i \in 1..Len(m) |->
           [Month |-> m[i].Month, Type |-> m[i].Type, co2 |-> m[i].co2,
            cumulative |-> CumSum(m, i)]]

-----------------------------------------------------------------------------
(* One execution of the script *)

\* The leaderboard half, lines 169-278.  Line 182 divides by len(grouped) and
\* raises when no leaderboard row is left.
LeaderboardPart ==
    /\ lb' = CleanLeaderboard(lbcsv)
    /\ grouped' = Grouped(lb')
    /\ IF Len(grouped') = 0
       THEN /\ status' = "lb_error"
            /\ layout_df' = <<>>
            /\ monthly' = <<>>
       ELSE /\ status' = "ok"
            /\ layout_df' = LayoutDf(grouped')
            /\ monthly' = Monthly(lb')

\* The listings half stopped by the exception of line 19 or 20: nothing is
\* drawn and no widget is created.
ListingsAborted ==
    /\ status' = "listings_error"
    /\ df' = <<>>
    /\ top_neighborhoods' = <<>>
    /\ selected_neighborhoods' = {}
    /\ room_types' = <<>>
    /\ selected_room_types' = {}
    /\ df_filtered' = <<>>
    /\ agg_col' = ""
    /\ df_grouped' = <<>>
    /\ df_bubble' = <<>>
    /\ df_price_plot' = <<>>
    /\ strip_data' = <<>>
    /\ scatter_sel' = {}
    /\ strip_sel' = {}
    /\ lb' = <<>>
    /\ grouped' = <<>>
    /\ layout_df' = <<>>
    /\ monthly' = <<>>
    /\ UNCHANGED <<top_n, metric>>

\* A multiselect created without a key is identified by its options: it
\* keeps the value the user gave it while the options stay the same, and is
\* a new widget holding its default (every option) when they change.
WidgetValue(options, oldOptions, value) ==
    IF status # "start" /\ options = oldOptions THEN value ELSE Range(options)

\* A chart whose data did not change is not rebuilt and keeps its selection
\* store; a rebuilt view starts with an empty store.
ViewStore(data, oldData, store) ==
    IF status # "start" /\ data = oldData THEN store ELSE {}

\* The script from line 14 to line 278 with the slider at n, the metric at m
\* and the multiselects holding nsel and rsel.
Execute(n, nsel, m, rsel) ==
    /\ UNCHANGED <<csv, lbcsv>>
    /\ IF ListingsRaises(csv)
       THEN ListingsAborted
       ELSE /\ df' = CleanListings(csv)
            /\ top_n' = n
            /\ top_neighborhoods' = TopNeighborhoods(df', top_n')
            /\ selected_neighborhoods' =
                   WidgetValue(top_neighborhoods', top_neighborhoods, nsel)
            /\ df_filtered' = IsIn(df', "host_neighbourhood", selected_neighborhoods')
            /\ metric' = m
            /\ agg_col' = AggCol(metric')
            /\ df_grouped' = DfGrouped(df_filtered', metric')
            /\ room_types' = RoomTypes(df_filtered')
            /\ selected_room_types' = WidgetValue(room_types', room_types, rsel)
            /\ df_bubble' = DfBubble(df_filtered', selected_room_types')
            /\ df_price_plot' = DfPricePlot(df_filtered')
            /\ scatter_sel' = ViewStore(df_price_plot', df_price_plot, scatter_sel)
            /\ strip_data' = StripData(df_filtered')
            /\ strip_sel' = ViewStore(strip_data', strip_data, strip_sel)
            /\ LeaderboardPart

-----------------------------------------------------------------------------
(* Actions *)

Running == status \in {"ok", "lb_error"}

\* The slider values tried: both ends, the default, and one above the minimum.
SliderChoices == {MinTopN, MinTopN + 1, DefaultTopN, MaxTopN}

Run ==
    /\ status = "start"
    /\ Execute(top_n, {}, metric, {})

SetTopN ==
    /\ Running
    /\ \E n \in SliderChoices \ {top_n} :
           Execute(n, selected_neighborhoods, metric, selected_room_types)

DeselectNeighborhood ==
    /\ Running
    /\ \E h \in selected_neighborhoods :
           Execute(top_n, selected_neighborhoods \ {h}, metric, selected_room_types)

SelectNeighborhood ==
    /\ Running
    /\ \E h \in Range(top_neighborhoods) \ selected_neighborhoods :
           Execute(top_n, selected_neighborhoods \cup {h}, metric, selected_room_types)

ClearNeighborhoods ==
    /\ Running
    /\ selected_neighborhoods # {}
    /\ Execute(top_n, {}, metric, selected_room_types)

SelectMetric ==
    /\ Running
    /\ \E m \in Metrics \ {metric} :
           Execute(top_n, selected_neighborhoods, m, selected_room_types)

DeselectRoomType ==
    /\ Running
    /\ \E t \in selected_room_types :
           Execute(top_n, selected_neighborhoods, metric, selected_room_types \ {t})

SelectRoomType ==
    /\ Running
    /\ \E t \in Range(room_types) \ selected_room_types :
           Execute(top_n, selected_neighborhoods, metric, selected_room_types \cup {t})

\* A click in a chart changes that view's selection store in the browser;
\* the script is not executed.  nearest=True resolves a click to a point.
ClickScatter ==
    /\ Running
    /\ \E h \in Range(Column(df_price_plot, "host_neighbourhood")), shift \in BOOLEAN :
           scatter_sel' = ClickOn(scatter_sel, h, shift)
    /\ UNCHANGED <<csv, lbcsv, status, top_n, top_neighborhoods,
                   selected_neighborhoods, metric, room_types, selected_room_types,
                   df, df_filtered, agg_col, df_grouped, df_bubble, df_price_plot,
                   strip_data, strip_sel, lb, grouped, layout_df, monthly>>

ClickStrip ==
    /\ Running
    /\ \E h \in Range(Column(strip_data, "host_neighbourhood")), shift \in BOOLEAN :
           strip_sel' = ClickOn(strip_sel, h, shift)
    /\ UNCHANGED <<csv, lbcsv, status, top_n, top_neighborhoods,
                   selected_neighborhoods, metric, room_types, selected_room_types,
                   df, df_filtered, agg_col, df_grouped, df_bubble, df_price_plot,
                   strip_data, scatter_sel, lb, grouped, layout_df, monthly>>

-----------------------------------------------------------------------------
(* Inputs *)

RawRow(h, p, a, rt, acc, bath, bd, hs, rating, sh) ==
    [host_neighbourhood |-> h, price |-> p, availability_365 |-> a,
     room_type |-> rt, accommodates |-> acc, bathrooms |-> bath, beds |-> bd,
     host_since |-> hs, review_scores_rating |-> rating, host_is_superhost |-> sh]

\* read_csv numbers the rows; the index stays with a row through every filter.
WithIndex(rows) ==
    [i \in 1..Len(rows) |->
        [idx |-> i,
         host_neighbourhood |-> rows[i].host_neighbourhood,
         price |-> rows[i].price,
         availability_365 |-> rows[i].availability_365,
         room_type |-> rows[i].room_type,
         accommodates |-> rows[i].accommodates,
         bathrooms |-> rows[i].bathrooms,
         beds |-> rows[i].beds,
         host_since |-> rows[i].host_since,
         review_scores_rating |-> rows[i].review_scores_rating,
         host_is_superhost |-> rows[i].host_is_superhost]]

RECURSIVE SeqsUpTo(_, _)
SeqsUpTo(S, n) ==
    IF n = 0 THEN {<<>>}
    ELSE LET shorter == SeqsUpTo(S, n - 1)
         IN shorter \cup {Append(q, x) : q \in shorter, x \in S}

D2015 == <<"2", "0", "1", "5", "-", "0", "3">>
D2020 == <<"2", "0", "2", "0", "-", "1", "1">>
P50 == <<"$", "5", "0">>
P1200 == <<"$", "1", ",", "2", "0", "0">>
P999 == <<"9", "9", "9">>
P1000 == <<"$", "1", ",", "0", "0", "0">>
Junk == <<"x">>

Good1 == RawRow(<<"A">>, P50, Num(10), <<"E">>, <<"2">>, <<"1">>, <<"1">>,
                D2015, Num(5), <<"t">>)
Good2 == RawRow(<<"B">>, P1200, Num(3), <<"P">>, <<"4">>, <<"2">>, <<"3">>,
                D2020, Num(4), <<"f">>)

\* Good1 with one cell missing, empty or unparsable.
DirtyPool ==
    {Good1, Good2}
    \cup {[Good1 EXCEPT ![c] = NaN] : c \in TextColumns}
    \cup {[Good1 EXCEPT ![c] = NaNF] : c \in NumericColumns}
    \cup {[Good1 EXCEPT !.host_neighbourhood = EmptyText]}
    \cup {[Good1 EXCEPT ![c] = Junk] :
             c \in {"price", "accommodates", "beds", "bathrooms", "host_since"}}
    \cup {[Good1 EXCEPT !.host_since = <<"2", "0", "1", "5", "-", "1", "3">>]}

MaxDirtyRows == 2

DirtyCsvs == {WithIndex(q) : q \in SeqsUpTo(DirtyPool, MaxDirtyRows) \ {<<>>}}

LbRow(t, c, d) == [Type |-> t, co2 |-> c, upload_date |-> d]

LbWithIndex(rows) ==
    [i \in 1..Len(rows) |->
        [idx |-> i, Type |-> rows[i].Type, co2 |-> rows[i].co2,
         upload_date |-> rows[i].upload_date]]

M2312 == <<"2", "0", "2", "3", "-", "1", "2">>
M2401 == <<"2", "0", "2", "4", "-", "0", "1">>
M2402 == <<"2", "0", "2", "4", "-", "0", "2">>

LbGood == LbRow(<<"A">>, <<"4">>, M2401)
LbNoType == LbRow(NaN, <<"2">>, M2401)
LbBadCo2 == LbRow(<<"B">>, Junk, M2401)
LbBadDate == LbRow(<<"B">>, <<"2">>, Junk)

\* A few leaderboard files for the runs that vary the listings.
LbSamples ==
    {LbWithIndex(q) : q \in {<<LbGood>>, <<LbGood, LbNoType>>, <<LbBadCo2, LbGood>>,
                             <<LbGood, LbBadDate>>, <<LbBadDate>>}}

LbPool ==
    {LbGood, LbNoType, LbBadCo2, LbBadDate,
     LbRow(<<"A">>, <<"1">>, M2402),
     LbRow(<<"B">>, <<"1">>, M2312),
     LbRow(<<"B">>, <<"2">>, M2402),
     LbRow(<<"C">>, <<"3">>, M2401)}

MaxLbRows == 3

LbCsvs == {LbWithIndex(q) : q \in SeqsUpTo(LbPool, MaxLbRows)}

\* Listings of seven neighbourhoods for the sidebar filters.
Listing(h, p, a, rt) ==
    RawRow(h, p, Num(a), rt, <<"2">>, <<"1">>, <<"1">>, D2015, Num(5), <<"t">>)

Master ==
    <<Listing(<<"C">>, P50, 10, <<"E">>),
      Listing(<<"A">>, P1200, 3, <<"E">>),
      Listing(<<"B">>, P999, 2, <<"P">>),
      Listing(<<"D">>, P50, 1, <<"E">>),
      Listing(<<"E">>, P1000, 5, <<"E">>),
      Listing(<<"F">>, P50, 7, <<"E">>),
      Listing(<<"G">>, P50, 6, <<"E">>),
      Listing(<<"G">>, P999, 0, <<"P">>),
      Listing(<<"A">>, P50, 4, <<"P">>)>>

MaxDropped == 1

Without(s, D) == SelectSeq([i \in 1..Len(s) |-> [pos |-> i, row |-> s[i]]],
                           LAMBDA e : e.pos \notin D)

DashCsvs ==
    {WithIndex([i \in 1..Len(Without(Master, D)) |-> Without(Master, D)[i].row]) :
        D \in {X \in SUBSET (1..Len(Master)) : Cardinality(X) <= MaxDropped}}

\* Short listings files for the charts.
ChartPool ==
    {Listing(<<"A">>, P50, 10, <<"E">>),
     Listing(<<"A">>, P1200, 3, <<"P">>),
     Listing(<<"B">>, P999, 2, <<"P">>),
     Listing(<<"C">>, P1000, 4, <<"E">>)}

MaxChartRows == 3

ChartCsvs == {WithIndex(q) : q \in SeqsUpTo(ChartPool, MaxChartRows)}

-----------------------------------------------------------------------------
(* Specifications *)

\* Before the first execution: the files are given, nothing is computed.
Start(listings, leaderboard) ==
    /\ csv = listings
    /\ lbcsv = leaderboard
    /\ status = "start"
    /\ top_n = DefaultTopN
    /\ metric = DefaultMetric
    /\ top_neighborhoods = <<>>
    /\ selected_neighborhoods = {}
    /\ room_types = <<>>
    /\ selected_room_types = {}
    /\ df = <<>>
    /\ df_filtered = <<>>
    /\ agg_col = ""
    /\ df_grouped = <<>>
    /\ df_bubble = <<>>
    /\ df_price_plot = <<>>
    /\ strip_data = <<>>
    /\ scatter_sel = {}
    /\ strip_sel = {}
    /\ lb = <<>>
    /\ grouped = <<>>
    /\ layout_df = <<>>
    /\ monthly = <<>>

OneLb == LbWithIndex(<<LbGood>>)

\* The sidebar filters over listings of many neighbourhoods.
Init == \E c \in DashCsvs : Start(c, OneLb)

Next ==
    \/ Run
    \/ SetTopN
    \/ DeselectNeighborhood
    \/ SelectNeighborhood
    \/ ClearNeighborhoods

Spec == Init /\ [][Next]_vars

\* The first execution over files with missing and unparsable cells.
InitClean == \E c \in DirtyCsvs, l \in LbSamples : Start(c, l)
SpecClean == InitClean /\ [][Run]_vars

\* The widgets above the charts over short files.
InitCharts == \E c \in ChartCsvs : Start(c, OneLb)

NextCharts ==
    \/ Run
    \/ DeselectNeighborhood
    \/ SelectNeighborhood
    \/ ClearNeighborhoods
    \/ SelectMetric
    \/ DeselectRoomType
    \/ SelectRoomType

SpecCharts == InitCharts /\ [][NextCharts]_vars

\* Clicks in the two linked charts.
NextLinked ==
    \/ Run
    \/ DeselectNeighborhood
    \/ SelectNeighborhood
    \/ ClickScatter
    \/ ClickStrip

SpecLinked == InitCharts /\ [][NextLinked]_vars

\* The first execution over leaderboard files.
InitLb == \E l \in LbCsvs : Start(WithIndex(<<Good1>>), l)
SpecLb == InitLb /\ [][Run]_vars

-----------------------------------------------------------------------------
(* Properties of the cleaning step *)

Ran == status \in {"ok", "lb_error"}

Idx(rows) == {rows[i].idx : i \in 1..Len(rows)}

\* The input rows some listings chart draws.
ChartedIdx ==
    Idx(df_filtered) \cup Idx(df_bubble) \cup Idx(df_price_plot) \cup Idx(strip_data)

ChartedNeighbourhoods ==
    Range(Column(df_grouped, "host_neighbourhood"))

InputMissing(r) ==
    \/ r.host_neighbourhood = NaN \/ r.price = NaN \/ r.room_type = NaN
    \/ r.accommodates = NaN \/ r.bathrooms = NaN \/ r.beds = NaN
    \/ r.host_since = NaN \/ r.host_is_superhost = NaN
    \/ r.availability_365.null \/ r.review_scores_rating.null

\* C1: after cleaning, every row of df has a value in each of the ten
\* selected columns and a non-empty host_neighbourhood, and no input row
\* with a missing value (or an empty neighbourhood) is drawn by any chart.
C1_CleanedRowsComplete ==
    Ran =>
        /\ \A i \in 1..Len(df) :
              /\ df[i].host_neighbourhood \notin {NaN, EmptyText}
              /\ df[i].room_type # NaN
              /\ df[i].host_is_superhost # NaN
              /\ ~df[i].price.null
              /\ ~df[i].availability_365.null
              /\ ~df[i].accommodates.null
              /\ ~df[i].bathrooms.null
              /\ ~df[i].beds.null
              /\ ~df[i].host_since.null
              /\ ~df[i].review_scores_rating.null
        /\ \A k \in ChartedIdx \cup Idx(df) :
              /\ ~InputMissing(csv[k])
              /\ csv[k].host_neighbourhood # EmptyText
        /\ ChartedNeighbourhoods \subseteq Range(Column(df, "host_neighbourhood"))

\* A run that kept one row and dropped another: one for a missing cell or an
\* empty neighbourhood, or one whose beds were coerced to NaN.
C1_Witness ==
    /\ status = "ok"
    /\ Len(df) = 1
    /\ ChartedIdx # {}
    /\ \E k \in 1..Len(csv) :
          /\ k \notin Idx(df)
          /\ \/ InputMissing(csv[k])
             \/ csv[k].host_neighbourhood = EmptyText
             \/ csv[k].beds = Junk

\* C2: for every cleaned row estimated_revenue_365d is price times
\* availability_365 and host_year is the year of host_since, both defined
\* (not missing), also for every row a chart draws.
C2_DerivedColumns ==
    Ran =>
        /\ \A i \in 1..Len(df) :
              /\ df[i].estimated_revenue_365d
                     = [null |-> FALSE, v |-> df[i].price.v * df[i].availability_365.v]
              /\ df[i].availability_365 = csv[df[i].idx].availability_365
              /\ df[i].host_year
                     = [null |-> FALSE,
                        v |-> NumeralVal(SubSeq(csv[df[i].idx].host_since, 1, 4))]
        /\ \A r \in Range(df_filtered) \cup Range(df_bubble) \cup Range(strip_data) :
              /\ r \in Range(df)
              /\ ~r.estimated_revenue_365d.null
              /\ ~r.host_year.null

C2_Witness ==
    /\ status = "ok"
    /\ \E r \in Range(strip_data) :
          /\ r.price.v = 1200
          /\ r.estimated_revenue_365d.v = 3600
          /\ r.host_year.v = 2020

\* C5: unparsable beds, bathrooms or host_since never raise (the run is
\* aborted only by a price or accommodates that is no number, in a row that
\* survived the first null-drop); no row with an unparsed value in a
\* converted column is drawn, and an aborted run draws nothing; a
\* leaderboard row with an unparsable CO2 cost or date or without Type is
\* dropped.
C5_CoercionOnly ==
    /\ status = "listings_error" =>
          /\ \E k \in 1..Len(csv) :
                /\ ~InputMissing(csv[k])
                /\ csv[k].host_neighbourhood # EmptyText
                /\ \/ ~IsNumeral(StripDollarComma(csv[k].price))
                   \/ ~IsNumeral(csv[k].accommodates)
          /\ ChartedIdx = {} /\ df_grouped = <<>> /\ layout_df = <<>> /\ monthly = <<>>
    /\ status # "start" =>
          /\ \A k \in ChartedIdx \cup Idx(df) :
                /\ IsNumeral(StripDollarComma(csv[k].price))
                /\ IsNumeral(csv[k].accommodates)
                /\ IsNumeral(csv[k].beds)
                /\ IsNumeral(csv[k].bathrooms)
                /\ IsDateText(csv[k].host_since)
          /\ \A k \in Idx(lb) :
                /\ IsNumeral(lbcsv[k].co2)
                /\ IsDateText(lbcsv[k].upload_date)
                /\ lbcsv[k].Type # NaN
          /\ Range(Column(layout_df, "Type")) \cup Range(Column(monthly, "Type"))
                \subseteq Range(Column(lb, "Type"))

\* Unparsable beds in one listing and a bad leaderboard row, both dropped,
\* and the run went on to draw the other rows.
C5_Witness ==
    /\ status = "ok"
    /\ Len(df) = 1
    /\ ChartedIdx # {}
    /\ \E k \in 1..Len(csv) : k \notin Idx(df) /\ csv[k].beds = Junk
    /\ Len(lb) = 1
    /\ \E k \in 1..Len(lbcsv) : k \notin Idx(lb) /\ lbcsv[k].co2 = Junk

-----------------------------------------------------------------------------
(* Properties of the leaderboard charts *)

\* C8: of two bubbles, the one whose Type has the larger mean CO2 cost has
\* a radius, and so a Size, at least as large.  (The code pairs circle i
\* with row i of grouped, while circlify returns the circles by ascending
\* radius: this statement fails.)
C8_LargerMeanLargerBubble ==
    status = "ok" =>
        \A i, j \in 1..Len(layout_df) :
            layout_df[i].co2.num * layout_df[j].co2.den
                < layout_df[j].co2.num * layout_df[i].co2.den
            => /\ layout_df[i].r.num * layout_df[j].r.den
                      <= layout_df[j].r.num * layout_df[i].r.den
               /\ layout_df[i].Size.num * layout_df[j].Size.den
                      <= layout_df[j].Size.num * layout_df[i].Size.den

LbTotal(t, upTo) ==
    SumSeq(Co2Values(SelectSeq(lb, LAMBDA r :
        r.Type = t /\ 12 * r.upload_date.year + r.upload_date.month - 1 <= upTo)))

LbMonthTypes ==
    {<<12 * lb[i].upload_date.year + lb[i].upload_date.month - 1, lb[i].Type>> :
        i \in 1..Len(lb)}

\* C9: monthly has one row per (Month, Type) pair of the cleaned leaderboard
\* data; its cumulative value is the sum of the CO2 costs of that Type in
\* the months up to and including its Month, so per Type it does not
\* decrease over the months and ends at the Type's total.
C9_CumulativePerType ==
    status = "ok" =>
        /\ {<<monthly[i].Month, monthly[i].Type>> : i \in 1..Len(monthly)} = LbMonthTypes
        /\ Len(monthly) = Cardinality(LbMonthTypes)
        /\ \A i \in 1..Len(monthly) :
              monthly[i].cumulative = LbTotal(monthly[i].Type, monthly[i].Month)
        /\ \A i, j \in 1..Len(monthly) :
              monthly[i].Type = monthly[j].Type /\ monthly[i].Month <= monthly[j].Month
              => monthly[i].cumulative <= monthly[j].cumulative
        /\ \A i \in 1..Len(monthly) :
              (\A j \in 1..Len(monthly) :
                  monthly[j].Type = monthly[i].Type => monthly[j].Month <= monthly[i].Month)
              => monthly[i].cumulative
                     = SumSeq(Co2Values(SelectSeq(lb, LAMBDA r : r.Type = monthly[i].Type)))

\* Two Types, one of them with two months, the other Type's month between
\* or before them.
C9_Witness ==
    /\ status = "ok"
    /\ \E i, j, k \in 1..Len(monthly) :
          /\ i < k /\ k < j
          /\ monthly[i].Type = monthly[j].Type
          /\ monthly[k].Type # monthly[i].Type
          /\ monthly[j].cumulative = monthly[i].co2 + monthly[j].co2
          /\ monthly[j].cumulative > monthly[j].co2

-----------------------------------------------------------------------------
(* Properties of the sidebar filters *)

Neighbourhoods(rows) == {rows[i].host_neighbourhood : i \in 1..Len(rows)}

Listed == {top_neighborhoods[i] : i \in 1..Len(top_neighborhoods)}

RowsOf(S) == {r \in Range(df) : r.host_neighbourhood \in S}

C3_FilterState ==
    Ran =>
        /\ selected_neighborhoods \subseteq Listed
        /\ Range(df_filtered) = RowsOf(selected_neighborhoods)
        /\ Len(df_filtered) = Cardinality(RowsOf(selected_neighborhoods))
        /\ \A i, j \in 1..Len(df_filtered) : i < j => df_filtered[i].idx < df_filtered[j].idx

C3_Default ==
    status = "start" /\ status' # "listings_error" =>
        /\ selected_neighborhoods' = {top_neighborhoods'[i] : i \in 1..Len(top_neighborhoods')}
        /\ Range(df_filtered') = {r \in Range(df') : r.host_neighbourhood \in selected_neighborhoods'}

\* C3: after any slider and multiselect interactions the selected
\* neighbourhoods are among the current options and df_filtered is exactly
\* the cleaned rows of the selected neighbourhoods, each once and in file
\* order (C3_FilterState); the first execution, with the default selection,
\* keeps every cleaned row of a top-N neighbourhood (C3_Default).
C3_FilteredIsSelection == []C3_FilterState /\ [][C3_Default]_vars

\* The slider at its minimum leaves neighbourhoods out, and the user has
\* deselected some of the options.
C3_Witness ==
    /\ Ran
    /\ top_n = 5
    /\ Neighbourhoods(df) \ Listed # {}
    /\ Cardinality(selected_neighborhoods) = 3
    /\ Len(df_filtered) = 4

NeighbourhoodCount(h) == Cardinality({i \in 1..Len(df) : df[i].host_neighbourhood = h})

\* C6: the options are the top_n most frequent neighbourhoods of the cleaned
\* data, top_n in 5..100 and 30 before the slider is moved: as many entries
\* as the smaller of top_n and the number of neighbourhoods, no entry twice,
\* and no neighbourhood left out is more frequent than one included.
C6_TopNOptions ==
    /\ top_n \in 5..100
    /\ status = "start" => top_n = 30
    /\ Ran =>
        /\ Listed \subseteq Neighbourhoods(df)
        /\ Cardinality(Listed) = Len(top_neighborhoods)
        /\ Len(top_neighborhoods)
              = IF top_n < Cardinality(Neighbourhoods(df))
                THEN top_n ELSE Cardinality(Neighbourhoods(df))
        /\ \A out \in Neighbourhoods(df) \ Listed : \A in \in Listed :
              NeighbourhoodCount(out) <= NeighbourhoodCount(in)

\* Five of seven neighbourhoods are offered; one with two listings appears
\* in the file after five others and is offered, one with a single listing
\* is left out.
C6_Witness ==
    /\ Ran
    /\ top_n = 5
    /\ Len(top_neighborhoods) = 5
    /\ Cardinality(Neighbourhoods(df)) = 7
    /\ <<"G">> \in Listed
    /\ NeighbourhoodCount(<<"G">>) = 2
    /\ \E out \in Neighbourhoods(df) \ Listed : NeighbourhoodCount(out) = 1

-----------------------------------------------------------------------------
(* Properties of the listings charts *)

GroupOf(h) == SelectSeq(df_filtered, LAMBDA r : r.host_neighbourhood = h)
RevenueSum(h) == SumSeq([i \in 1..Len(GroupOf(h)) |-> GroupOf(h)[i].estimated_revenue_365d.v])
PriceSum(h) == SumSeq([i \in 1..Len(GroupOf(h)) |-> GroupOf(h)[i].price.v])

\* C4: df_grouped has one row per neighbourhood of df_filtered, holding the
\* mean or the sum of estimated_revenue_365d, the mean of price or the
\* number of rows as the metric says (a mean m of n rows as the fraction
\* with m * n equal to their sum); the 'Total Listings' values add up to
\* the number of rows of df_filtered; each metric has its own agg_col.
C4_GroupedMetric ==
    Ran =>
        /\ Neighbourhoods(df_grouped) = Neighbourhoods(df_filtered)
        /\ Len(df_grouped) = Cardinality(Neighbourhoods(df_filtered))
        /\ metric \in {"Average Revenue", "Total Revenue", "Average Price", "Total Listings"}
        /\ \A i \in 1..Len(df_grouped) :
              LET h == df_grouped[i].host_neighbourhood
                  val == df_grouped[i].value
              IN /\ metric = "Average Revenue" =>
                       /\ agg_col = "avg_estimated_revenue"
                       /\ val.den = Len(GroupOf(h)) /\ val.num = RevenueSum(h)
                 /\ metric = "Total Revenue" =>
                       /\ agg_col = "total_estimated_revenue"
                       /\ val.den = 1 /\ val.num = RevenueSum(h)
                 /\ metric = "Average Price" =>
                       /\ agg_col = "avg_price"
                       /\ val.den = Len(GroupOf(h)) /\ val.num = PriceSum(h)
                 /\ metric = "Total Listings" =>
                       /\ agg_col = "total_listings"
                       /\ val.den = 1 /\ val.num = Len(GroupOf(h))
        /\ metric = "Total Listings" =>
              SumSeq([i \in 1..Len(df_grouped) |-> df_grouped[i].value.num]) = Len(df_filtered)

\* 'Total Revenue' over two neighbourhoods, one of them with two listings
\* of different revenue.
C4_Witness ==
    /\ Ran
    /\ metric = "Total Revenue"
    /\ Len(df_grouped) = 2
    /\ \E i \in 1..Len(df_grouped) :
          /\ df_grouped[i].host_neighbourhood = <<"A">>
          /\ df_grouped[i].value = [num |-> 4100, den |-> 1]

C10_ChartRows ==
    Ran =>
        /\ {room_types[i] : i \in 1..Len(room_types)}
              = {df_filtered[i].room_type : i \in 1..Len(df_filtered)}
        /\ selected_room_types \subseteq {room_types[i] : i \in 1..Len(room_types)}
        /\ Range(df_bubble) = {r \in Range(df_filtered) : r.room_type \in selected_room_types}
        /\ Len(df_bubble) = Cardinality(Idx(df_bubble))
        /\ Idx(df_price_plot) = {r.idx : r \in {x \in Range(df_filtered) : x.price.v < 1000}}
        /\ Len(df_price_plot) = Cardinality(Idx(df_price_plot))
        /\ \A i \in 1..Len(df_price_plot) :
              /\ df_price_plot[i].price = df[CHOOSE k \in 1..Len(df) :
                                             df[k].idx = df_price_plot[i].idx].price
              /\ df_price_plot[i].host_neighbourhood = csv[df_price_plot[i].idx].host_neighbourhood
        /\ strip_data = df_filtered
        /\ ChartedIdx \subseteq Idx(df_filtered)
        /\ selected_neighborhoods = {} =>
              /\ df_filtered = <<>> /\ df_grouped = <<>> /\ df_bubble = <<>>
              /\ df_price_plot = <<>> /\ strip_data = <<>>

C10_Default ==
    status = "start" /\ status' # "listings_error" =>
        selected_room_types' = {room_types'[i] : i \in 1..Len(room_types')}

\* C10: the bubble chart draws the df_filtered rows of the selected room
\* types, which are among the room types of df_filtered; the scatter plot
\* draws the df_filtered rows with price below 1000; the strip chart draws
\* df_filtered; an empty neighbourhood selection empties the charts and
\* raises nothing (C10_ChartRows); the first execution selects every room
\* type on offer (C10_Default).
C10_ChartsDrawFiltered == []C10_ChartRows /\ [][C10_Default]_vars

\* A listing at 999 is in the scatter plot and one at 1000 is not; one of
\* two room types is deselected.
C10_Witness ==
    /\ Ran
    /\ \E r \in Range(df_filtered) : r.price.v = 1000 /\ r.idx \notin Idx(df_price_plot)
    /\ \E r \in Range(df_filtered) : r.price.v = 999 /\ r.idx \in Idx(df_price_plot)
    /\ Len(room_types) = 2
    /\ Cardinality(selected_room_types) = 1
    /\ Len(df_bubble) = 1

-----------------------------------------------------------------------------
(* Properties of the linked selection *)

\* C7: after any clicks the neighbourhoods drawn at opacity 1 are the same
\* in the scatter plot and in the strip chart.  (The two charts are passed
\* to st.altair_chart separately, so each view holds a selection store of
\* its own: this statement fails.)
C7_SameHighlight ==
    Ran =>
        \A h \in Neighbourhoods(df_filtered) :
            (scatter_sel = {} \/ h \in scatter_sel) <=> (strip_sel = {} \/ h \in strip_sel)

====
